---- MODULE Spec2Model ----
(***************************************************************************)
(* Model of kospel.py: the WebScrap panel session (driver lifecycle, login *)
(* and read navigation) and the Kospel AppDaemon app that publishes the    *)
(* readouts as sensors.                                                     *)
(*                                                                         *)
(* Texts are sequences of one-character strings so that split, replace,    *)
(* isnumeric and float can be computed.  A float is kept in thousandths.   *)
(* One call of run() is computed by an operator that threads a call        *)
(* context through the driver calls in source order and records every      *)
(* driver call in a trace.                                                  *)
(***************************************************************************)
EXTENDS Integers, Sequences, FiniteSets, TLC

VARIABLES
    alive,      \* WebScrap.driver has not been quit
    page,       \* the page the browser shows
    logged_in,  \* WebScrap.logged_in
    sensors,    \* host state store: sensor.kospel_<key> -> [state, attributes]
    addon,      \* host state store: kospel.state
    bundle,     \* Kospel.SENSORS / STATUSES / SETTINGS: the class-level dicts
    last        \* observation of the last operation (outcome, trace, readouts)

vars == <<alive, page, logged_in, sensors, addon, bundle, last>>

(***************************************************************************)
(* Fixed key tables                                                         *)
(***************************************************************************)
STATUS == <<"radiator", "tap", "clock", "pump", "error", "suitcase">>

SETTINGS == <<"temp_prog", "temp_zas_nas">>

PARAMS == <<"params_temp_in", "params_temp_out", "params_temp_factor",
            "params_temp_room", "params_temp_outside", "params_temp_boil",
            "params_power", "params_preasure", "params_flow">>

SensorKeys == <<"temp_room", "temp_outside", "temp_boil", "power">>

StatusKeys == <<"radiator", "tap", "pump", "error">>

SettingKeys == <<"temp_prog", "temp_zas_nas">>

Range(s) == {s[i] : i \in 1..Len(s)}

GREEN == "rgb(0, 170, 0)"
RED == "rgb(255, 0, 0)"
WHITE == "rgb(233, 233, 233)"
GRAY == "rgb(133, 133, 133)"
BLACK == "rgb(0, 0, 0)"

Dashes == <<"-", "-", "-">>

(***************************************************************************)
(* The panel as one call of run() meets it: at most one driver call that   *)
(* fails (fault) and at most one leaf element that deviates from the base  *)
(* content (dev).                                                           *)
(***************************************************************************)
Fault(op, target, kind) == [op |-> op, target |-> target, kind |-> kind]

NoFault == Fault("none", "none", "none")

Faults ==
    { Fault("find", "path7", "Other"),
      Fault("get", "url", "Other"),
      Fault("wait", "login", "Timeout"),
      Fault("wait", "pass", "Timeout"),
      Fault("send_keys", "login", "NotInteractable"),
      Fault("find", "zaloguj", "NoSuchElement"),
      Fault("find", "zaloguj", "NotInteractable"),
      Fault("click", "zaloguj", "NotInteractable"),
      Fault("wait", "ui-body", "Timeout"),
      Fault("find_all", "li", "Empty"),
      Fault("find_all", "li", "NoSuchElement"),
      Fault("click", "li", "NotInteractable"),
      Fault("wait", "start", "Timeout"),
      Fault("script", "loadModule", "Other"),
      Fault("wait", "path7", "Timeout"),
      Fault("find", "parameters_lbl_", "NoSuchElement"),
      Fault("find", "parameters_lbl_", "NotInteractable"),
      Fault("click", "parameters_lbl_", "NotInteractable"),
      Fault("visible", "params_temp_in", "Timeout"),
      Fault("find", "back", "NoSuchElement"),
      Fault("find", "back", "NotInteractable"),
      Fault("click", "back", "NotInteractable") }

Dev(group, key, kind, color, text) ==
    [group |-> group, key |-> key, kind |-> kind, color |-> color, text |-> text]

NoDev == Dev("none", "none", "none", "", <<>>)

DevColors == {GREEN, RED, WHITE, GRAY, BLACK, "rgb(1, 2, 3)", "red", ""}

DevParamTexts ==
    { <<"-", "3", " ", "°", "C">>,
      <<"-", "-", ".", "5", " ", "k", "W">>,
      <<"x", "1", " ", "k", "W">>,
      <<"4", "k", "W">>,
      <<"1", " ", "2", " ", "W">>,
      <<>> }

DevSettingTexts ==
    { <<"1", "8", "°">>,
      <<"-", "-", "°">>,
      <<"o", "f", "f">>,
      <<>> }

Devs ==
    {Dev("status", k, kind, "", <<>>) : k \in Range(STATUS), kind \in {"absent", "nofill"}}
    \cup {Dev("status", k, "value", c, <<>>) : k \in Range(StatusKeys), c \in DevColors}
    \cup {Dev("settings", k, "absent", "", <<>>) : k \in Range(SETTINGS)}
    \cup {Dev("settings", k, "value", "", t) : k \in Range(SETTINGS), t \in DevSettingTexts}
    \cup {Dev("params", k, "absent", "", <<>>) : k \in Range(PARAMS)}
    \cup {Dev("params", "params_" \o k, "value", "", t) : k \in Range(SensorKeys), t \in DevParamTexts}

Panels ==
    {[fault |-> f, dev |-> NoDev] : f \in Faults \cup {NoFault}}
    \cup {[fault |-> NoFault, dev |-> d] : d \in Devs}

NoPanel == [fault |-> NoFault, dev |-> NoDev]

BaseColor(icon) ==
    CASE icon = "radiator" -> RED
      [] icon = "tap" -> GREEN
      [] icon = "clock" -> GRAY
      [] icon = "pump" -> GRAY
      [] icon = "error" -> WHITE
      [] OTHER -> WHITE

BaseSetting(key) ==
    IF key = "temp_prog" THEN <<"2", "1", ".", "5", "°">> ELSE <<"4", "5", "°">>

BaseParam(key) ==
    CASE key = "params_temp_room" -> <<"2", "1", ".", "5", " ", "°", "C">>
      [] key = "params_temp_outside" -> <<"7", " ", "°", "C">>
      [] key = "params_temp_boil" -> <<"4", "4", ".", "2", " ", "°", "C">>
      [] key = "params_power" -> <<"4", " ", "k", "W">>
      [] key = "params_preasure" -> <<"1", ".", "5", " ", "b">>
      [] key = "params_flow" -> <<"9", " ", "l">>
      [] OTHER -> <<"3", "5", " ", "°", "C">>

Hits(p, group, key) == p.dev.group = group /\ p.dev.key = key

\* how the element of a leaf key answers find_element / the property read
LeafKind(p, group, key) == IF Hits(p, group, key) THEN p.dev.kind ELSE "value"

PanelFill(p, icon) ==
    IF Hits(p, "status", icon) /\ p.dev.kind = "value" THEN p.dev.color ELSE BaseColor(icon)

PanelSetting(p, key) ==
    IF Hits(p, "settings", key) /\ p.dev.kind = "value" THEN p.dev.text ELSE BaseSetting(key)

PanelParam(p, key) ==
    IF Hits(p, "params", key) /\ p.dev.kind = "value" THEN p.dev.text ELSE BaseParam(key)

(***************************************************************************)
(* WebScrap: the call context of one run()                                  *)
(***************************************************************************)
EmptyDict == [k \in {} |-> <<>>]

\* the context a call starts from
Ctx(a, pg, li) ==
    [alive |-> a, page |-> pg, logged_in |-> li, err |-> "none", el |-> FALSE,
     home |-> FALSE, trace |-> <<>>,
     status |-> EmptyDict, settings |-> EmptyDict, params |-> EmptyDict]

Log(c, op, target) == [c EXCEPT !.trace = Append(@, <<op, target>>)]

Raise(c, e) == [c EXCEPT !.err = e]

\* the answer of the driver to one call: a driver that was quit answers no call
DriverCall(c, p, op, target) ==
    IF ~c.alive THEN "Other"
    ELSE IF p.fault.op = op /\ p.fault.target = target THEN p.fault.kind
    ELSE "ok"

\* stop() that releases the driver and leaves logged_in as it was
stop_keeps_login(c) ==
    [Log(c, "quit", "driver") EXCEPT !.alive = FALSE, !.page = "closed"]

\* stop() that raises when the driver was already quit
stop_once(c) ==
    IF c.alive
    THEN [Log(c, "quit", "driver") EXCEPT !.alive = FALSE, !.page = "closed", !.logged_in = FALSE]
    ELSE Raise(Log(c, "quit", "driver"), "Exception")

stop(c) ==
    [Log(c, "quit", "driver") EXCEPT !.alive = FALSE, !.page = "closed", !.logged_in = FALSE]

_wait_for_element(c, p, target) ==
    IF c.err # "none" THEN c
    ELSE LET r == DriverCall(c, p, "wait", target)
             c1 == Log(c, "wait", target)
         IN CASE r = "ok" -> [c1 EXCEPT !.el = TRUE]
              [] r = "Timeout" -> Raise(stop(c1), "ReferenceError")
              [] OTHER -> Raise(c1, "Exception")

\* answer is the driver's answer for this locator on a live driver
_find_element(c, target, answer, required, interactible) ==
    IF c.err # "none" THEN c
    ELSE LET r == IF c.alive THEN answer ELSE "Other"
             c1 == Log(c, "find", target)
             none == [c1 EXCEPT !.el = FALSE]
         IN CASE r = "ok" -> [c1 EXCEPT !.el = TRUE]
              [] r = "NoSuchElement" ->
                    IF required THEN Raise(stop(none), "ReferenceError") ELSE none
              [] r = "NotInteractable" ->
                    IF interactible THEN Raise(stop(none), "ReferenceError") ELSE none
              [] OTHER -> Raise(c1, "Exception")

_find_elements(c, p, target, required) ==
    IF c.err # "none" THEN c
    ELSE LET r == DriverCall(c, p, "find_all", target)
             c1 == Log(c, "find_all", target)
             none == [c1 EXCEPT !.el = FALSE]
         IN CASE r = "ok" -> [c1 EXCEPT !.el = TRUE]
              [] r = "NoSuchElement" ->
                    IF required THEN Raise(stop(none), "ReferenceError") ELSE none
              [] r = "Empty" ->
                    IF required THEN Raise(stop(none), "ReferenceError") ELSE none
              [] OTHER -> Raise(c1, "Exception")

\* element.click(), element.send_keys(), driver.execute_script(): not guarded
Act(c, p, op, target, newpage) ==
    IF c.err # "none" THEN c
    ELSE LET r == DriverCall(c, p, op, target)
             c1 == Log(c, op, target)
         IN IF r # "ok" THEN Raise(c1, "Exception")
            ELSE IF newpage = "same" THEN c1
            ELSE [c1 EXCEPT !.page = newpage]

\* _find_element(..., required=True, interactible=True) on a navigation control
FindControl(c, p, target) ==
    _find_element(c, target, DriverCall(c, p, "find", target), TRUE, TRUE)

_get_page(c, p) ==
    IF c.err # "none" THEN c
    ELSE LET r == DriverCall(c, p, "get", "url")
             c1 == Log(c, "get", "url")
         IN IF r = "ok" THEN [c1 EXCEPT !.page = "login"]
            ELSE Raise(stop(c1), "ConnectionError")

_login(c, p) ==
    LET c1 == _get_page(c, p)
        c2 == _wait_for_element(c1, p, "login")
        c3 == _wait_for_element(c2, p, "pass")
        c4 == Act(c3, p, "send_keys", "login", "same")
        c5 == Act(c4, p, "send_keys", "pass", "same")
        c6 == FindControl(c5, p, "zaloguj")
    IN Act(c6, p, "click", "zaloguj", "devices")

_goto_device(c, p) ==
    LET c1 == _wait_for_element(c, p, "ui-body")
        c2 == _find_elements(c1, p, "li", TRUE)
    IN Act(c2, p, "click", "li", "modules")

_goto_module(c, p) ==
    LET c1 == _wait_for_element(c, p, "start")
    IN Act(c1, p, "script", "loadModule", "home")

_await_main_page(c, p) == _wait_for_element(c, p, "path7")

\* self.logged_in = True, reached when nothing was raised before
SetLoggedIn(c) == IF c.err # "none" THEN c ELSE [c EXCEPT !.logged_in = TRUE]

\* _login_and_navigate() that does not wait for the home marker
_login_and_navigate_no_await(c, p) ==
    LET c1 == _login(c, p)
        c2 == _goto_device(c1, p)
        c3 == _goto_module(c2, p)
    IN SetLoggedIn(c3)

_login_and_navigate(c, p) ==
    LET c1 == _login(c, p)
        c2 == _goto_device(c1, p)
        c3 == _goto_module(c2, p)
        c4 == _await_main_page(c3, p)
    IN SetLoggedIn(c4)

\* status[icon] = read
StoreStatus(c, icon, read) ==
    IF c.err # "none" THEN c
    ELSE [Log(c, "css", icon \o "_") EXCEPT !.status = (icon :> read) @@ @]

\* one pass of the loop body of _read_status
ReadOneStatus(c, p, icon) ==
    LET answer == IF LeafKind(p, "status", icon) = "absent" THEN "NoSuchElement" ELSE "ok"
        read == IF LeafKind(p, "status", icon) = "nofill" THEN "rgb(0, 0, 0)"
                ELSE PanelFill(p, icon)
    IN StoreStatus(_find_element(c, icon \o "_", answer, TRUE, FALSE), icon, read)

RECURSIVE StatusLoop(_, _, _)
StatusLoop(c, p, i) ==
    IF i > Len(STATUS) \/ c.err # "none" THEN c
    ELSE StatusLoop(ReadOneStatus(c, p, STATUS[i]), p, i + 1)

_read_status(c, p) == StatusLoop(c, p, 1)

\* if element: settings[setting] = element.text
StoreSetting(c, setting, text) ==
    IF c.err # "none" \/ ~c.el THEN c
    ELSE [Log(c, "text", setting) EXCEPT !.settings = (setting :> text) @@ @]

ReadOneSetting(c, p, setting) ==
    LET answer == IF LeafKind(p, "settings", setting) = "absent" THEN "NoSuchElement" ELSE "ok"
    IN StoreSetting(_find_element(c, setting, answer, FALSE, FALSE), setting,
                    PanelSetting(p, setting))

RECURSIVE SettingsLoop(_, _, _)
SettingsLoop(c, p, i) ==
    IF i > Len(SETTINGS) \/ c.err # "none" THEN c
    ELSE SettingsLoop(ReadOneSetting(c, p, SETTINGS[i]), p, i + 1)

_read_settings(c, p) == SettingsLoop(c, p, 1)

\* WebDriverWait(...).until(visibility_of_element_located(params_temp_in))
WaitVisible(c, p) ==
    IF c.err # "none" THEN c
    ELSE LET r == DriverCall(c, p, "visible", "params_temp_in")
             c1 == Log(c, "visible", "params_temp_in")
         IN CASE r = "ok" -> c1
              [] r = "Timeout" -> Raise(c1, "ConnectionError")
              [] OTHER -> Raise(c1, "Exception")

_goto_params_page(c, p) ==
    WaitVisible(Act(FindControl(c, p, "parameters_lbl_"), p, "click", "parameters_lbl_", "params"), p)

\* params[param] = element.text if element else "---"
StoreParam(c, param, text) ==
    IF c.err # "none" THEN c
    ELSE IF c.el THEN [Log(c, "text", param) EXCEPT !.params = (param :> text) @@ @]
    ELSE [c EXCEPT !.params = (param :> Dashes) @@ @]

\* a parameter lookup that is required
ReadOneParam_required(c, p, param) ==
    LET answer == IF LeafKind(p, "params", param) = "absent" THEN "NoSuchElement" ELSE "ok"
    IN StoreParam(_find_element(c, param, answer, TRUE, FALSE), param, PanelParam(p, param))

ReadOneParam(c, p, param) ==
    LET answer == IF LeafKind(p, "params", param) = "absent" THEN "NoSuchElement" ELSE "ok"
    IN StoreParam(_find_element(c, param, answer, FALSE, FALSE), param, PanelParam(p, param))

RECURSIVE ParamsLoop(_, _, _)
ParamsLoop(c, p, i) ==
    IF i > Len(PARAMS) \/ c.err # "none" THEN c
    ELSE ParamsLoop(ReadOneParam(c, p, PARAMS[i]), p, i + 1)

_read_params(c, p) == ParamsLoop(c, p, 1)

\* _back_to_main() that only waits for the home marker
_back_to_main_no_click(c, p) == _await_main_page(c, p)

\* _back_to_main() with a soft back control
SoftBack(c, p) ==
    IF c.err = "none" /\ ~c.el THEN [c EXCEPT !.logged_in = FALSE]
    ELSE _await_main_page(Act(c, p, "click", "back", "home"), p)

_back_to_main_soft(c, p) ==
    SoftBack(_find_element(c, "back", DriverCall(c, p, "find", "back"), FALSE, FALSE), p)

_back_to_main(c, p) ==
    _await_main_page(Act(FindControl(c, p, "back"), p, "click", "back", "home"), p)

\* the answer of find_element for the home marker at the top of run()
HomeAnswer(c, p) ==
    IF p.fault.op = "find" /\ p.fault.target = "path7" THEN p.fault.kind
    ELSE IF c.page = "home" THEN "ok" ELSE "NoSuchElement"

\* run(), line 335: if not self.logged_in: raise PermissionError
RequireLoggedIn(c) ==
    IF c.err = "none" /\ ~c.logged_in THEN Raise(c, "PermissionError") ELSE c

\* the branch on the home marker that always logs in
AfterHomeLookup_always_login(c, p) ==
    IF c.err # "none" THEN c
    ELSE RequireLoggedIn(_login_and_navigate([c EXCEPT !.logged_in = FALSE, !.home = c.el], p))

\* run(), lines 329-336: c is the session after the lookup of the home marker
AfterHomeLookup(c, p) ==
    IF c.err # "none" THEN c
    ELSE IF c.el THEN RequireLoggedIn([c EXCEPT !.logged_in = TRUE, !.home = TRUE])
    ELSE RequireLoggedIn(_login_and_navigate([c EXCEPT !.logged_in = FALSE], p))

\* run(), lines 328-336: find the home marker or log in
check_home(c, p) ==
    AfterHomeLookup(_find_element(c, "path7", HomeAnswer(c, p), FALSE, FALSE), p)

\* run() that reads the parameters before it opens their page
run_reads_before_open(c, p) ==
    LET c3 == check_home(c, p)
        c4 == _read_status(c3, p)
        c5 == _read_settings(c4, p)
        c6 == _read_params(c5, p)
        c7 == _goto_params_page(c6, p)
    IN _back_to_main(c7, p)

run(c, p) ==
    LET c3 == check_home(c, p)
        c4 == _read_status(c3, p)
        c5 == _read_settings(c4, p)
        c6 == _goto_params_page(c5, p)
        c7 == _read_params(c6, p)
    IN _back_to_main(c7, p)

(***************************************************************************)
(* Text primitives used by the interpreter                                  *)
(***************************************************************************)
Digits == {"0", "1", "2", "3", "4", "5", "6", "7", "8", "9"}

DigitVal(ch) ==
    CASE ch = "0" -> 0 [] ch = "1" -> 1 [] ch = "2" -> 2 [] ch = "3" -> 3
      [] ch = "4" -> 4 [] ch = "5" -> 5 [] ch = "6" -> 6 [] ch = "7" -> 7
      [] ch = "8" -> 8 [] OTHER -> 9

\* str.replace(ch, "")
Replace(t, ch) == SelectSeq(t, LAMBDA x : x # ch)

\* str.split(sep)
RECURSIVE Split(_, _)
Split(t, sep) ==
    IF \A i \in 1..Len(t) : t[i] # sep THEN <<t>>
    ELSE LET i == CHOOSE j \in 1..Len(t) : t[j] = sep /\ \A h \in 1..(j - 1) : t[h] # sep
         IN <<SubSeq(t, 1, i - 1)>> \o Split(SubSeq(t, i + 1, Len(t)), sep)

\* str.isnumeric() on the alphabet of the model
IsNumeric(t) == Len(t) > 0 /\ \A i \in 1..Len(t) : t[i] \in Digits

RECURSIVE Decimal(_)
Decimal(t) == IF t = <<>> THEN 0 ELSE 10 * Decimal(SubSeq(t, 1, Len(t) - 1)) + DigitVal(t[Len(t)])

\* float(t) accepts [-]digits[.digits], [-]digits. and [-].digits
FloatAccepts(t) ==
    LET body == IF t # <<>> /\ t[1] = "-" THEN Tail(t) ELSE t
    IN /\ \A i \in 1..Len(body) : body[i] \in Digits \cup {"."}
       /\ Len(SelectSeq(body, LAMBDA x : x = ".")) <= 1
       /\ \E i \in 1..Len(body) : body[i] \in Digits

\* float(t) in thousandths
FloatOf(t) ==
    LET neg == t # <<>> /\ t[1] = "-"
        body == IF neg THEN Tail(t) ELSE t
        parts == Split(body, ".")
        frac == IF Len(parts) > 1 THEN SubSeq(parts[2] \o <<"0", "0", "0">>, 1, 3) ELSE <<"0", "0", "0">>
        mag == 1000 * Decimal(parts[1]) + Decimal(frac)
    IN IF neg THEN 0 - mag ELSE mag

\* Kospel.get_rgb on the colour strings of the model
get_rgb(rgb_string) ==
    CASE rgb_string = GREEN -> <<"0", "170", "0">>
      [] rgb_string = RED -> <<"255", "0", "0">>
      [] rgb_string = WHITE -> <<"233", "233", "233">>
      [] rgb_string = GRAY -> <<"133", "133", "133">>
      [] rgb_string = BLACK -> <<"0", "0", "0">>
      [] rgb_string = "rgb(1, 2, 3)" -> <<"1", "2", "3">>
      [] OTHER -> <<>>

(***************************************************************************)
(* Kospel: the app                                                          *)
(***************************************************************************)
Str(s) == [kind |-> "str", num |-> 0, str |-> s]

Num(n) == [kind |-> "float", num |-> n, str |-> ""]

Published == Range(SensorKeys) \cup Range(StatusKeys) \cup Range(SettingKeys)

\* Kospel.SENSORS, Kospel.STATUSES and Kospel.SETTINGS as the class defines them
ClassDicts ==
    [k \in Published |->
        CASE k = "temp_room" ->
                [device_class |-> <<"temperature">>, friendly_name |-> <<"Room temperature">>,
                 unit_of_measurement |-> <<"°", "C">>, icon |-> <<"mdi:thermometer">>]
          [] k = "temp_outside" ->
                [device_class |-> <<"temperature">>, friendly_name |-> <<"Outside temperature">>,
                 unit_of_measurement |-> <<"°", "C">>, icon |-> <<"mdi:thermometer">>]
          [] k = "temp_boil" ->
                [device_class |-> <<"temperature">>, friendly_name |-> <<"Tap water temperature">>,
                 unit_of_measurement |-> <<"°", "C">>, icon |-> <<"mdi:thermometer">>]
          [] k = "power" ->
                [device_class |-> <<"power">>, friendly_name |-> <<"Current power">>,
                 unit_of_measurement |-> <<"k", "W">>, icon |-> <<"mdi:lightning-bolt-outline">>]
          [] k = "radiator" ->
                [device_class |-> <<"running">>, friendly_name |-> <<"Radiators heating">>,
                 initial_state |-> <<"off">>, icon |-> <<"mdi:radiator">>]
          [] k = "tap" ->
                [device_class |-> <<"running">>, friendly_name |-> <<"Tap water heating">>,
                 initial_state |-> <<"off">>, icon |-> <<"mdi:water-pump">>]
          [] k = "pump" ->
                [device_class |-> <<"running">>, friendly_name |-> <<"Heating pump">>,
                 initial_state |-> <<"off">>, icon |-> <<"mdi:pump">>]
          [] k = "error" ->
                [device_class |-> <<"binary_sensor">>, friendly_name |-> <<"Error">>,
                 initial_state |-> <<"off">>, icon |-> <<"mdi:alert-circle">>]
          [] k = "temp_prog" ->
                [device_class |-> <<"temperature">>, friendly_name |-> <<"Room temperature setting">>,
                 unit_of_measurement |-> <<"°", "C">>, icon |-> <<"mdi:thermometer">>]
          [] OTHER ->
                [device_class |-> <<"temperature">>,
                 friendly_name |-> <<"Tap water temperature setting">>,
                 unit_of_measurement |-> <<"°", "C">>, icon |-> <<"mdi:thermometer">>]]

\* the state of the app during one handler: c is the WebScrap, exc the exception in flight
App(c, ss, b, ad) == [c |-> c, sensors |-> ss, bundle |-> b, addon |-> ad, exc |-> "none"]

sensor_state(a, sensor, value, attributes) ==
    LET attributes_update == IF attributes # EmptyDict THEN attributes @@ a.bundle[sensor]
                             ELSE a.bundle[sensor]
    IN [a EXCEPT !.bundle[sensor] = attributes_update,
                 !.sensors[sensor] = [state |-> value, attributes |-> attributes_update]]

RECURSIVE ResetLoop(_, _, _)
ResetLoop(a, items, i) ==
    IF i > Len(items) THEN a
    ELSE ResetLoop(sensor_state(a, items[i], Str("Unavailable"), EmptyDict), items, i + 1)

\* reset() that forgets the SETTINGS sensors
reset_skips_settings(a) == ResetLoop(a, SensorKeys \o StatusKeys, 1)

reset(a) == ResetLoop(a, SensorKeys \o StatusKeys \o SettingKeys, 1)

\* self.web_scrap.stop()
StopSession(a) == [a EXCEPT !.c = stop(a.c)]

SetAddon(a, state) == [a EXCEPT !.addon = state]

addon_state(a, state) ==
    SetAddon(IF state = "off" THEN reset(StopSession(a)) ELSE a, state)

\* one pass of the loop body of process_params
ProcessOneParam(a, params, item) ==
    LET key == "params_" \o item
        readout == IF key \in DOMAIN params THEN params[key] ELSE <<>>
        parts == Split(readout, " ")
        value == parts[1]
        unit == parts[2]
    IN IF readout = <<>> THEN a
       ELSE IF Len(parts) # 2 THEN [a EXCEPT !.exc = "ValueError"]
       ELSE IF ~IsNumeric(Replace(Replace(value, "."), "-")) THEN a
       ELSE IF ~FloatAccepts(value) THEN [a EXCEPT !.exc = "ValueError"]
       ELSE sensor_state(a, item, Num(FloatOf(value)), [unit_of_measurement |-> unit])

RECURSIVE ParamsProcLoop(_, _, _)
ParamsProcLoop(a, params, i) ==
    IF i > Len(SensorKeys) \/ a.exc # "none" THEN a
    ELSE ParamsProcLoop(ProcessOneParam(a, params, SensorKeys[i]), params, i + 1)

process_params(a, params) == ParamsProcLoop(a, params, 1)

ProcessOneSetting(a, settings, item) ==
    LET raw == IF item \in DOMAIN settings THEN settings[item] ELSE <<>>
        readout == Replace(raw, "°")
    IN IF raw = <<>> THEN a
       ELSE IF ~IsNumeric(Replace(Replace(readout, "."), "-")) THEN a
       ELSE IF ~FloatAccepts(readout) THEN [a EXCEPT !.exc = "ValueError"]
       ELSE sensor_state(a, item, Num(FloatOf(readout)), EmptyDict)

RECURSIVE SettingsProcLoop(_, _, _)
SettingsProcLoop(a, settings, i) ==
    IF i > Len(SettingKeys) \/ a.exc # "none" THEN a
    ELSE SettingsProcLoop(ProcessOneSetting(a, settings, SettingKeys[i]), settings, i + 1)

process_settings(a, settings) == SettingsProcLoop(a, settings, 1)

\* the classification with the branches of GRAY and WHITE exchanged
Describe_swapped(rgb_color) ==
    CASE rgb_color = GREEN -> "standby"
      [] rgb_color = RED -> "active"
      [] rgb_color = GRAY -> "off"
      [] rgb_color = WHITE -> "on"
      [] rgb_color = BLACK -> "unknown"
      [] OTHER -> "unknown"

Describe(rgb_color) ==
    CASE rgb_color = GREEN -> "standby"
      [] rgb_color = RED -> "active"
      [] rgb_color = GRAY -> "on"
      [] rgb_color = WHITE -> "off"
      [] rgb_color = BLACK -> "unknown"
      [] OTHER -> "unknown"

ProcessOneStatus(a, statuses, item) ==
    LET rgb_color == IF item \in DOMAIN statuses THEN statuses[item] ELSE ""
    IN IF rgb_color = "" THEN a
       ELSE sensor_state(a, item, Str(Describe(rgb_color)), [rgb_color |-> get_rgb(rgb_color)])

RECURSIVE StatusProcLoop(_, _, _)
StatusProcLoop(a, statuses, i) ==
    IF i > Len(StatusKeys) \/ a.exc # "none" THEN a
    ELSE StatusProcLoop(ProcessOneStatus(a, statuses, StatusKeys[i]), statuses, i + 1)

process_statuses(a, statuses) == StatusProcLoop(a, statuses, 1)

\* read_data, line 132, reached when no process_* call raised
Finish(a) == IF a.exc # "none" THEN a ELSE addon_state(a, "on")

\* read_data whose generic except clause only stops the driver
AfterRun_generic_only_stops(a, r) ==
    CASE r.err \in {"ConnectionError", "ReferenceError"} -> addon_state(a, "off")
      [] r.err # "none" -> StopSession(a)
      [] OTHER -> Finish(process_settings(process_statuses(process_params(a, r.params),
                                                           r.status), r.settings))

\* read_data after the call of run(): r is the session run() left, a the app with it
AfterRun(a, r) ==
    CASE r.err \in {"ConnectionError", "ReferenceError"} -> addon_state(a, "off")
      [] r.err # "none" -> StopSession(addon_state(a, "off"))
      [] OTHER -> Finish(process_settings(process_statuses(process_params(a, r.params),
                                                           r.status), r.settings))

WithSession(a, r) == AfterRun([a EXCEPT !.c = r], r)

read_data(a, p) == WithSession(a, run(a.c, p))

\* terminate without its finally clause
terminate_only_stops(a) == StopSession(a)

terminate(a) == addon_state(StopSession(a), "off")

(***************************************************************************)
(* State machine: the operations of the app and of its WebScrap             *)
(***************************************************************************)
\* what the caller of an operation sees: the session it started from, the error
\* run() raised or the three dicts it returned, the exception that left the handler
Seen(op, p, c0, c, exc) ==
    [op |-> op, panel |-> p, err |-> c.err, exc |-> exc, home |-> c.home, trace |-> c.trace,
     pre |-> [alive |-> c0.alive, page |-> c0.page, logged_in |-> c0.logged_in],
     status |-> IF c.err = "none" THEN c.status ELSE EmptyDict,
     settings |-> IF c.err = "none" THEN c.settings ELSE EmptyDict,
     params |-> IF c.err = "none" THEN c.params ELSE EmptyDict]

Init ==
    /\ alive = TRUE
    /\ page = "blank"
    /\ logged_in = FALSE
    /\ sensors = [k \in Published |-> [state |-> Str("unset"), attributes |-> EmptyDict]]
    /\ addon = "unset"
    /\ bundle = ClassDicts
    /\ last = Seen("init", NoPanel, Ctx(TRUE, "blank", FALSE), Ctx(TRUE, "blank", FALSE), "none")

\* the session an operation starts from
Session == Ctx(alive, page, logged_in)

\* a driver that was quit never consults the panel
Inputs == IF alive THEN Panels ELSE {NoPanel}

\* WebScrap.run() called directly; an error propagates to the caller
Collect(p) ==
    \E r \in {run(Session, p)} :
       /\ alive' = r.alive
       /\ page' = r.page
       /\ logged_in' = r.logged_in
       /\ last' = Seen("run", p, Session, r, r.err)
       /\ UNCHANGED <<sensors, addon, bundle>>

\* WebScrap.stop() called directly
Stop ==
    \E r \in {stop(Session)} :
       /\ alive' = r.alive
       /\ page' = r.page
       /\ logged_in' = r.logged_in
       /\ last' = Seen("stop", NoPanel, Session, r, r.err)
       /\ UNCHANGED <<sensors, addon, bundle>>

\* the scheduled callback Kospel.read_data
ReadData(p) ==
    \E a \in {read_data(App(Session, sensors, bundle, addon), p)} :
       /\ alive' = a.c.alive
       /\ page' = a.c.page
       /\ logged_in' = a.c.logged_in
       /\ sensors' = a.sensors
       /\ addon' = a.addon
       /\ bundle' = a.bundle
       /\ last' = Seen("read_data", p, Session, a.c, a.exc)

\* the lifecycle hook Kospel.terminate
Terminate ==
    \E a \in {terminate(App(Session, sensors, bundle, addon))} :
       /\ alive' = a.c.alive
       /\ page' = a.c.page
       /\ logged_in' = a.c.logged_in
       /\ sensors' = a.sensors
       /\ addon' = a.addon
       /\ bundle' = a.bundle
       /\ last' = Seen("terminate", NoPanel, Session, a.c, a.exc)

\* the panel drops the session between two polls: the home marker is gone
SessionExpires ==
    /\ alive /\ page = "home"
    /\ page' = "login"
    /\ UNCHANGED <<alive, logged_in, sensors, addon, bundle, last>>

\* the app as the host drives it
Next ==
    \/ \E p \in Inputs : ReadData(p)
    \/ Terminate
    \/ SessionExpires

Spec == Init /\ [][Next]_vars

\* the WebScrap driven directly through its two public methods
NextSession ==
    \/ \E p \in Inputs : Collect(p)
    \/ Stop
    \/ SessionExpires

SpecSession == Init /\ [][NextSession]_vars

TypeOK ==
    /\ alive \in BOOLEAN
    /\ logged_in \in BOOLEAN
    /\ page \in {"blank", "login", "devices", "modules", "home", "params", "closed"}
    /\ addon \in {"unset", "on", "off"}
    /\ last.panel \in Panels
    /\ last.err \in {"none", "ConnectionError", "ReferenceError", "PermissionError", "Exception"}

(***************************************************************************)
(* Properties                                                               *)
(***************************************************************************)
Has(tr, op, target) == \E i \in 1..Len(tr) : tr[i] = <<op, target>>

\* the driver calls of the authentication sub-flow, in source order
AuthSteps ==
    << <<"get", "url">>, <<"wait", "login">>, <<"wait", "pass">>,
       <<"send_keys", "login">>, <<"send_keys", "pass">>,
       <<"find", "zaloguj">>, <<"click", "zaloguj">>,
       <<"wait", "ui-body">>, <<"find_all", "li">>, <<"click", "li">>,
       <<"wait", "start">>, <<"script", "loadModule">>, <<"wait", "path7">> >>

BackSteps == << <<"find", "back">>, <<"click", "back">>, <<"wait", "path7">> >>

\* a driver call of the read phase: status, settings, opening of the parameters, parameters
IsReadStep(step) ==
    /\ step \notin Range(AuthSteps) \cup Range(BackSteps)
    /\ step \notin {<<"find", "path7">>, <<"quit", "driver">>}

\* C1: after a collect() that failed because a navigation anchor timed out and tore
\* the driver down, the next collect() loads the login URL and runs the login sub-flow.
C1_NextCollectReauthenticates ==
    [][(/\ last.op = "run" /\ last.err = "ReferenceError"
        /\ last.panel.fault.kind = "Timeout" /\ ~alive
        /\ last'.op = "run")
       => (Has(last'.trace, "get", "url") /\ Has(last'.trace, "wait", "login"))]_vars

\* C2: read_data returns normally for every outcome of collect() and every raw readout.
C2_ReadDataNeverRaises == last.op = "read_data" => last.exc = "none"

\* C3: whenever the addon state is "off", the driver is stopped and each of the 10
\* published sensors holds "Unavailable".
C3_OffMeansStoppedAndUnavailable ==
    addon = "off" =>
       /\ ~alive
       /\ \A k \in Published : sensors[k].state = Str("Unavailable")

\* C3 witness: a poll after a cycle that had published values turned the addon off
C3_Witness ==
    /\ addon = "off" /\ last.op = "read_data"
    /\ "rgb_color" \in DOMAIN sensors["radiator"].attributes

\* C4: a collect() that finds the home marker at its start performs no login-URL
\* load, no credential submission, no device and no module selection.
C4_NoReloginWhenHome ==
    (last.op = "run" /\ last.home) =>
       \A i \in 1..Len(last.trace) :
          last.trace[i] \notin Range(SubSeq(AuthSteps, 1, Len(AuthSteps) - 1))

\* C4 witness: a second collect() right after a successful one, home page still shown
C4_Witness ==
    /\ last.op = "run" /\ last.home /\ last.pre.logged_in /\ last.pre.page = "home"
    /\ last.err = "none"

\* C5: when the home marker is absent at the start of collect(), every read step is
\* preceded by the complete authentication sub-flow, in order and with every step done.
C5_AuthBeforeRead ==
    (last.op = "run" /\ ~last.home) =>
       \A i \in 1..Len(last.trace) :
          IsReadStep(last.trace[i]) =>
             /\ i > 1 + Len(AuthSteps)
             /\ SubSeq(last.trace, 2, 1 + Len(AuthSteps)) = AuthSteps

\* C5 witness: a collect() that had to log in and then read everything
C5_Witness ==
    /\ last.op = "run" /\ ~last.home /\ last.err = "none"
    /\ Has(last.trace, "text", "params_flow")

OthersCorrect(group, key) ==
    /\ \A k \in Range(STATUS) \ (IF group = "status" THEN {key} ELSE {}) :
          k \in DOMAIN last.status /\ last.status[k] = PanelFill(last.panel, k)
    /\ \A k \in Range(SETTINGS) \ (IF group = "settings" THEN {key} ELSE {}) :
          k \in DOMAIN last.settings /\ last.settings[k] = PanelSetting(last.panel, k)
    /\ \A k \in Range(PARAMS) \ (IF group = "params" THEN {key} ELSE {}) :
          k \in DOMAIN last.params /\ last.params[k] = PanelParam(last.panel, k)

C7_StopIsIdempotent ==
    last.op = "stop" => (last.err = "none" /\ ~alive /\ ~logged_in)

\* C7 witness: stop() on a driver that a failing collect() had already quit
C7_Witness == last.op = "stop" /\ ~last.pre.alive /\ last.err = "none"

\* C8 as stated: every collect() that got past authentication attempts the
\* back-to-home navigation before it returns or raises.
C8_AlwaysBackHome ==
    (last.op = "run" /\ Has(last.trace, "find", "radiator_")) => Has(last.trace, "find", "back")

\* C8 amended: collect() attempts the back-to-home navigation exactly when it got
\* through the read of the parameters; a successful collect() ends with it, a collect()
\* that fails in an earlier read step returns without attempting it.
C8_BackHomeAfterParams ==
    last.op = "run" =>
       /\ Has(last.trace, "find", "back") <=> Has(last.trace, "find", "params_flow")
       /\ last.err = "none" =>
             /\ Len(last.trace) >= Len(BackSteps)
             /\ SubSeq(last.trace, Len(last.trace) - Len(BackSteps) + 1, Len(last.trace))
                   = BackSteps

\* C8 witness: a successful collect()
C8_Witness == last.op = "run" /\ last.err = "none" /\ Has(last.trace, "click", "back")

BackLookupFaults ==
    {Fault("find", "back", "NoSuchElement"), Fault("find", "back", "NotInteractable")}

\* C9 as stated: a missing or non-interactable back control does not make collect()
\* raise; the session is marked unauthenticated.
C9_BackIsSoft ==
    (last.op = "run" /\ last.panel.fault \in BackLookupFaults) =>
       (last.err = "none" /\ ~logged_in)

\* C9 amended: the back control is a hard requirement: when its lookup reports it
\* missing or not interactable, collect() stops the driver, which marks the session
\* unauthenticated, and raises ReferenceError.
C9_BackIsHard ==
    (last.op = "run" /\ last.panel.fault \in BackLookupFaults) =>
       /\ last.err = "ReferenceError"
       /\ ~alive /\ ~logged_in
       /\ Has(last.trace, "text", "params_flow")

\* C9 witness: the back control is missing after the parameters were read
C9_Witness ==
    /\ last.op = "run" /\ last.panel.fault = Fault("find", "back", "NoSuchElement")
    /\ last.err = "ReferenceError" /\ Has(last.trace, "find", "back")

\* C10: when every login step completes but the home marker cannot be located,
\* collect() fails with PermissionError, not with the error of a navigation timeout.
C10_HomeMarkerFailureIsPermissionError ==
    (/\ last.op = "run" /\ ~last.home
     /\ Has(last.trace, "script", "loadModule")
     /\ last.panel.fault = Fault("wait", "path7", "Timeout"))
       => last.err = "PermissionError"

(***************************************************************************)
(* Properties of the interpreter and of the app                             *)
(***************************************************************************)
\* the raw text of a parameter has a numeric token and a unit around one space, and
\* the token is all digits once '.' and '-' are stripped
WellFormedParam(text) ==
    /\ Len(Split(text, " ")) = 2
    /\ IsNumeric(Replace(Replace(Split(text, " ")[1], "."), "-"))

\* the raw text of a setting is all digits once the degree glyph, '.' and '-' are stripped
WellFormedSetting(text) == IsNumeric(Replace(Replace(Replace(text, "°"), "."), "-"))

\* the documented category of a colour string
Category(color) ==
    CASE color = "rgb(0, 170, 0)" -> "standby"
      [] color = "rgb(255, 0, 0)" -> "active"
      [] color = "rgb(133, 133, 133)" -> "on"
      [] color = "rgb(233, 233, 233)" -> "off"
      [] OTHER -> "unknown"

Missing == {Str("Unavailable"), Str("unset")}

AllUnavailable == \A k \in Published : sensors[k].state = Str("Unavailable")

\* C11: process_params never raises; a parameter whose token is valid and that float
\* reads is published as that float with the observed unit, every other input is
\* skipped for its key only.
C11_ParamsNeverRaise ==
    (last.op = "read_data" /\ last.err = "none") =>
       /\ last.exc = "none"
       /\ \A k \in Range(SensorKeys) :
             LET text == last.params["params_" \o k]
                 parts == Split(text, " ")
             IN (WellFormedParam(text) /\ FloatAccepts(parts[1])) =>
                   /\ sensors[k].state = Num(FloatOf(parts[1]))
                   /\ sensors[k].attributes.unit_of_measurement = parts[2]

\* the state of a sensor is computed from the readouts of the last cycle, or is a
\* missing marker
FromThisCycle(k) ==
    \/ sensors[k].state \in Missing
    \/ /\ k \in Range(SensorKeys)
       /\ WellFormedParam(last.params["params_" \o k])
       /\ sensors[k].state = Num(FloatOf(Split(last.params["params_" \o k], " ")[1]))
    \/ /\ k \in Range(SettingKeys)
       /\ k \in DOMAIN last.settings
       /\ WellFormedSetting(last.settings[k])
       /\ sensors[k].state = Num(FloatOf(Replace(last.settings[k], "°")))
    \/ /\ k \in Range(StatusKeys)
       /\ last.status[k] # ""
       /\ sensors[k].state = Str(Category(last.status[k]))

\* C12: after every completed poll cycle each published sensor holds a value computed
\* from that cycle's raw readouts or a missing marker, never the value of an earlier cycle.
C12_NoStaleSensor ==
    (last.op = "read_data" /\ last.err = "none" /\ last.exc = "none") =>
       \A k \in Published : FromThisCycle(k)

\* C13: after terminate(), from a live or an already stopped driver, the driver is
\* released, the addon state is "off" and every published sensor is "Unavailable";
\* stop() was called before the addon state was written.
C13_TerminateReleasesAll ==
    (last.op = "terminate") =>
       /\ ~alive
       /\ ~logged_in
       /\ addon = "off"
       /\ AllUnavailable
       /\ last.exc = "none"
       /\ Has(last.trace, "quit", "driver")

\* a terminate() that found the driver alive and sensors published by an earlier cycle
C13_Witness ==
    /\ last.op = "terminate"
    /\ last.pre.alive
    /\ last.pre.logged_in
    /\ AllUnavailable
    /\ "rgb_color" \in DOMAIN sensors["radiator"].attributes

\* C14: process_statuses publishes each of the 5 canonical colours as its documented
\* category and every other non-empty colour string as "unknown", and a colour of
\* any shape makes no call raise.
C14_StatusClassification ==
    /\ (last.op = "read_data" /\ last.err = "none" /\ last.panel.dev.group = "status")
          => last.exc = "none"
    /\ (last.op = "read_data" /\ last.err = "none" /\ last.exc = "none") =>
          \A k \in Range(StatusKeys) :
             (last.status[k] # "") =>
                /\ sensors[k].state = Str(Category(last.status[k]))
                /\ sensors[k].attributes.rgb_color = get_rgb(last.status[k])

\* a cycle that read one canonical colour per category and a colour outside the five
C14_Witness ==
    /\ last.op = "read_data"
    /\ last.exc = "none"
    /\ last.status["radiator"] \in {"rgb(1, 2, 3)", "red"}
    /\ sensors["radiator"].state = Str("unknown")
    /\ sensors["tap"].state = Str("standby")
    /\ sensors["pump"].state = Str("on")
    /\ sensors["error"].state = Str("off")

\* C15: whenever collect() raises because an anchor is missing or a wait timed out,
\* the driver has been released and logged_in is false when the error leaves it.
C15_HardFailureTearsDown ==
    (last.op = "run" /\ last.err \in {"ReferenceError", "ConnectionError"}) =>
       (~alive /\ ~logged_in)

\* C16: after read_data handled a failure of collect(), of the connectivity kind
\* or of any other kind, the driver is stopped, logged_in is false, every
\* published sensor is "Unavailable" and the addon state is "off".
C16_AnyFailureSameOutcome ==
    (last.op = "read_data" /\ last.err # "none") =>
       /\ ~alive
       /\ ~logged_in
       /\ page = "closed"
       /\ AllUnavailable
       /\ addon = "off"
       /\ last.exc = "none"

\* a cycle whose collect() raised outside the connectivity kinds, on a live driver
\* whose sensors an earlier cycle had published
C16_Witness ==
    /\ last.op = "read_data"
    /\ last.err \in {"PermissionError", "Exception"}
    /\ last.pre.alive
    /\ AllUnavailable
    /\ "rgb_color" \in DOMAIN sensors["radiator"].attributes

\* the phase of run() a driver call belongs to: 0 home lookup and authentication,
\* 1 status colours and settings, 2 opening of the parameters page, 3 parameters
Phase(step) ==
    CASE step[2] \in {STATUS[i] \o "_" : i \in 1..Len(STATUS)} -> 1
      [] step[2] \in Range(SETTINGS) -> 1
      [] step[2] = "parameters_lbl_" -> 2
      [] step[1] = "visible" -> 2
      [] step[2] \in Range(PARAMS) -> 3
      [] OTHER -> 0

\* the trace ends with the back-to-home navigation, the calls before it go through
\* the phases in order, and every read of every phase is among them
InOrder(tr) ==
    /\ Len(tr) > Len(BackSteps)
    /\ SubSeq(tr, Len(tr) - Len(BackSteps) + 1, Len(tr)) = BackSteps
    /\ \A i \in 1..(Len(tr) - Len(BackSteps) - 1) : Phase(tr[i]) <= Phase(tr[i + 1])
    /\ \A i \in 1..Len(STATUS) : Has(tr, "css", STATUS[i] \o "_")
    /\ \A i \in 1..Len(SETTINGS) : Has(tr, "find", SETTINGS[i])
    /\ Has(tr, "click", "parameters_lbl_")
    /\ Has(tr, "visible", "params_temp_in")
    /\ \A i \in 1..Len(PARAMS) : Has(tr, "find", PARAMS[i])

\* C17: a successful collect() reads the status colours and the settings, then clicks
\* the params-open control and waits for the parameters, then reads the 9 parameters,
\* then clicks the back control and confirms the home marker, in this order; it
\* returns on the home page with logged_in true.
C17_StepsInOrder ==
    [][(last'.op = "run" /\ last'.err = "none" /\ ~SessionExpires) =>
          (InOrder(last'.trace) /\ page' = "home" /\ logged_in' /\ alive')]_vars

\* a successful collect() that started on the home page and read every element
C17_Witness ==
    /\ last.op = "run" /\ last.err = "none" /\ last.home
    /\ page = "home" /\ logged_in
    /\ \A i \in 1..Len(PARAMS) : Has(last.trace, "text", PARAMS[i])

\* C18: the stored attribute bundle of a sensor never changes, and a sensor reset to
\* "Unavailable" carries only the fixed attributes of its bundle.
C18_BundleIsFixed ==
    /\ bundle = ClassDicts
    /\ \A k \in Published :
          (sensors[k].state = Str("Unavailable")) => (sensors[k].attributes = ClassDicts[k])

\* C19: after a read_data cycle the addon state is "on" exactly when the collect()
\* of that cycle succeeded and its readouts were processed.
C19_AddonOnIffCycleOk ==
    (last.op = "read_data") =>
       ((addon = "on") <=> (last.err = "none" /\ last.exc = "none"))

\* C20: logged_in implies a driver that was not released; logged_in turns true only
\* in a collect() on a live driver that found the home marker or reached the home
\* page through the login sub-flow, so after stop() it stays false until then.
C20_LoggedInNeedsLiveDriver ==
    /\ [](logged_in => alive)
    /\ [][(~logged_in /\ logged_in') =>
             /\ last'.op = "run"
             /\ last'.pre.alive
             /\ alive'
             /\ (last'.home \/ SubSeq(last'.trace, 2, 1 + Len(AuthSteps)) = AuthSteps)]_vars

\* stop() on a live, logged-in session
C20_Witness ==
    /\ last.op = "stop"
    /\ last.pre.alive /\ last.pre.logged_in
    /\ ~alive /\ ~logged_in

====
